---- MODULE Spec2Model ----
(***************************************************************************)
(* Model of dbutils.c (repmgr): primary discovery (get_master_connection,  *)
(* is_standby, _establish_db_connection) and the conninfo parameter list   *)
(* (initialize_conninfo_params, param_set, param_get,                      *)
(* copy_conninfo_params).                                                  *)
(***************************************************************************)
EXTENDS Integers, Sequences, FiniteSets, TLC

(***************************************************************************)
(* Bounds of the model.                                                    *)
(***************************************************************************)
\* number of rows of repmgr.nodes (node ids 1..MaxNode)
MaxNode == 2

Nodes == 1..MaxNode

\* number of options PQconndefaults() knows, i.e. the capacity of a list
MaxOptions == 2

\* values of the "type" column that the discovery query tells apart
NodeTypes == {"master", "standby", "witness"}

\* values of the "priority" column
Priorities == {50, 100}

\* what a server does when it is connected to and asked pg_is_in_recovery():
\*   down     - the connection attempt fails
\*   error    - connection made, the probe query fails
\*   standby  - connection made, the probe answers 't'
\*   primary  - connection made, the probe answers 'f'
ServerStates == {"down", "error", "standby", "primary"}

(***************************************************************************)
(* Program constants.                                                      *)
(***************************************************************************)
\* a NULL PGconn pointer: index 0 into the sequence of handles
NULL == 0

NODE_NOT_FOUND == -1

(***************************************************************************)
(* State.                                                                  *)
(***************************************************************************)
VARIABLES
    nodes,            \* repmgr.nodes: node_id -> row
    server,           \* the actual state of the server behind each conninfo
    pc,               \* position in get_master_connection
    master_id_arg,    \* master_id != NULL
    conninfo_arg,     \* master_conninfo_out != NULL
    master_id,        \* <<>> until written, then << *master_id >>
    remote_conninfo,  \* <<>> until written, then the content of the buffer
    res,              \* the rows of the node list query
    res_state,        \* "none", "open" or "cleared" (PQclear)
    query_failed,     \* the node list query did not return PGRES_TUPLES_OK
    i,                \* loop index (0-based as in the C code)
    node_id,          \* <<>> until assigned, then << node_id >>
    remote_conn,      \* handle of the candidate being processed
    conns,            \* every handle PQconnectdb returned, in order
    probes,           \* every is_standby() call made: [conn, result]
    retval            \* the returned PGconn (NULL or a handle)

VARIABLES
    param_list,       \* a t_conninfo_param_list: [size, keywords, values]
    hist,             \* the param_set calls made on param_list since the last
                      \* other operation on it, the latest two: [param, value]
    last_op           \* the last operation on param_list: its name, the list
                      \* before it and the source list it was given

param_vars == <<param_list, hist, last_op>>

VARIABLES
    node_info,        \* the caller's t_node_info
    call,             \* the last node record or server function called, what
                      \* it was given and what it returned
    written           \* create_node_record or update_node_record was called

reg_vars == <<node_info, call, written>>

gmc_vars == <<nodes, server, pc, master_id_arg, conninfo_arg, master_id,
              remote_conninfo, res, res_state, query_failed, i, node_id,
              remote_conn, conns, probes, retval>>

(***************************************************************************)
(* The registry and the servers.                                           *)
(***************************************************************************)
\* the conninfo stored for node n; it leads to server n
ConninfoFor(n) == [host |-> n]

ServerOf(conninfo) == conninfo.host

(***************************************************************************)
(* The node list query of get_master_connection.                           *)
(***************************************************************************)
\* CASE WHEN type = 'master' THEN 1 ELSE 2 END AS type_priority
TypePriority(type) == IF type = "master" THEN 1 ELSE 2

\* ORDER BY active DESC: true sorts before false
ActiveDesc(active) == IF active THEN 0 ELSE 1

\* the ordering with "priority" descending
RowBeforePriorityDesc(a, b) ==
    \/ ActiveDesc(a.active) < ActiveDesc(b.active)
    \/ /\ a.active = b.active
       /\ \/ TypePriority(a.type) < TypePriority(b.type)
          \/ /\ TypePriority(a.type) = TypePriority(b.type)
             /\ \/ a.priority > b.priority
                \/ /\ a.priority = b.priority
                   /\ a.node_id < b.node_id

\* ORDER BY active DESC, type_priority, priority, node_id
RowBefore(a, b) ==
    \/ ActiveDesc(a.active) < ActiveDesc(b.active)
    \/ /\ a.active = b.active
       /\ \/ TypePriority(a.type) < TypePriority(b.type)
          \/ /\ TypePriority(a.type) = TypePriority(b.type)
             /\ \/ a.priority < b.priority
                \/ /\ a.priority = b.priority
                   /\ a.node_id < b.node_id

RECURSIVE OrderBy(_)
OrderBy(rows) ==
    IF rows = {} THEN <<>>
    ELSE LET first == CHOOSE r \in rows :
                          \A o \in rows \ {r} : RowBefore(r, o)
         IN  <<first>> \o OrderBy(rows \ {first})

\* the query without its WHERE clause
WhereAnyType(reg) == {reg[n] : n \in DOMAIN reg}

\* WHERE type != 'witness'
WhereNotWitness(reg) == {reg[n] : n \in {m \in DOMAIN reg : reg[m].type # "witness"}}

\* SELECT node_id, conninfo, ... FROM repmgr.nodes WHERE ... ORDER BY ...
NodeListQuery(reg) ==
    LET sorted == OrderBy(WhereNotWitness(reg))
    IN  [k \in 1..Len(sorted) |->
            [node_id |-> sorted[k].node_id, conninfo |-> sorted[k].conninfo]]

(***************************************************************************)
(* _establish_db_connection / establish_db_connection                      *)
(***************************************************************************)
\* PQconnectdb followed by set_config(conn, "synchronous_commit", "local"):
\* the handle that comes back.  set_ok is the outcome of the SET statement.
establish_db_connection(conninfo, srv, set_ok) ==
    [ conninfo |-> conninfo,
      server   |-> ServerOf(conninfo),
      status   |-> IF srv[ServerOf(conninfo)] = "down"
                   THEN "CONNECTION_BAD" ELSE "CONNECTION_OK",
      synchronous_commit |->
                   IF srv[ServerOf(conninfo)] # "down" /\ set_ok
                   THEN "local" ELSE "default",
      finished |-> FALSE ]

(***************************************************************************)
(* is_standby                                                              *)
(***************************************************************************)
\* PQexec(conn, "SELECT pg_catalog.pg_is_in_recovery()") on a server
PQexecIsInRecovery(state) ==
    CASE state = "standby" -> [status |-> "PGRES_TUPLES_OK", ntuples |-> 1, value |-> "t"]
      [] state = "primary" -> [status |-> "PGRES_TUPLES_OK", ntuples |-> 1, value |-> "f"]
      [] OTHER             -> [status |-> "PGRES_FATAL_ERROR", ntuples |-> 0, value |-> ""]

is_standby(state) ==
    LET r == PQexecIsInRecovery(state)
    IN  IF r.status # "PGRES_TUPLES_OK" THEN -1
        ELSE IF r.ntuples = 1 /\ r.value = "t" THEN 1
        ELSE 0

(***************************************************************************)
(* get_master_connection                                                   *)
(***************************************************************************)
\* the type, priority and active columns a row is given.  The query reads no
\* column but "type" of a witness row, so witness rows come in one variant.
RowValues ==
    [type : NodeTypes \ {"witness"}, priority : Priorities, active : BOOLEAN]
        \cup [type : {"witness"}, priority : {100}, active : {TRUE}]

GmcInit ==
    /\ \E rows \in [Nodes -> RowValues] :
          nodes = [n \in Nodes |->
                     [node_id |-> n, type |-> rows[n].type,
                      priority |-> rows[n].priority,
                      active |-> rows[n].active, conninfo |-> ConninfoFor(n)]]
    /\ server \in [Nodes -> ServerStates]
    /\ pc = "idle"
    /\ master_id_arg = FALSE
    /\ conninfo_arg = FALSE
    /\ master_id = <<>>
    /\ remote_conninfo = <<>>
    /\ res = <<>>
    /\ res_state = "none"
    /\ query_failed = FALSE
    /\ i = 0
    /\ node_id = <<>>
    /\ remote_conn = NULL
    /\ conns = <<>>
    /\ probes = <<>>
    /\ retval = NULL

\* lines 583-612: the out parameters are prepared and the node list is read
Call ==
    /\ pc = "idle"
    /\ \E mid \in BOOLEAN, cout \in BOOLEAN, ok \in BOOLEAN :
          /\ master_id_arg' = mid
          /\ conninfo_arg' = cout
          /\ master_id' = IF mid THEN <<NODE_NOT_FOUND>> ELSE <<>>
          /\ IF ok
             THEN /\ res' = NodeListQuery(nodes)
                  /\ res_state' = "open"
                  /\ query_failed' = FALSE
                  /\ pc' = "for"
             ELSE /\ res' = <<>>
                  /\ res_state' = "cleared"
                  /\ query_failed' = TRUE
                  /\ pc' = "done"
    /\ i' = 0
    /\ retval' = NULL
    /\ UNCHANGED <<nodes, server, remote_conninfo, node_id, remote_conn,
                   conns, probes>>

\* the node id read from the first row whatever the loop index
RowNodeIdOfFirstRow(result, row) == result[1].node_id

\* atoi(PQgetvalue(res, i, 0))
RowNodeId(result, row) == result[row + 1].node_id

\* PQgetvalue(res, i, 1)
RowConninfo(result, row) == result[row + 1].conninfo

\* strncpy(remote_conninfo, PQgetvalue(res, i, 1), MAXCONNINFO): the buffer
\* after the copy (the stored conninfo strings fit the buffer)
CopyConninfo(buffer, value) == <<value>>

\* the connect step giving up on the first failed connection
ConnectAbortingOnFailure ==
    /\ pc = "for"
    /\ i < Len(res)
    /\ \E set_ok \in BOOLEAN :
          LET buffer == CopyConninfo(remote_conninfo, RowConninfo(res, i))
              h      == establish_db_connection(buffer[1], server, set_ok)
          IN  /\ node_id' = <<RowNodeId(res, i)>>
              /\ remote_conninfo' = buffer
              /\ conns' = Append(conns, h)
              /\ remote_conn' = Len(conns) + 1
              /\ IF h.status # "CONNECTION_OK"
                 THEN /\ i' = i
                      /\ pc' = "done"
                      /\ res_state' = "cleared"
                 ELSE /\ i' = i
                      /\ pc' = "probe"
                      /\ res_state' = res_state
    /\ UNCHANGED <<nodes, server, master_id_arg, conninfo_arg, master_id,
                   res, query_failed, probes, retval>>

\* lines 614-627: the next row is read and connected to
Connect ==
    /\ pc = "for"
    /\ i < Len(res)
    /\ \E set_ok \in BOOLEAN :
          LET buffer == CopyConninfo(remote_conninfo, RowConninfo(res, i))
              h      == establish_db_connection(buffer[1], server, set_ok)
          IN  /\ node_id' = <<RowNodeId(res, i)>>
              /\ remote_conninfo' = buffer
              /\ conns' = Append(conns, h)
              /\ remote_conn' = Len(conns) + 1
              /\ IF h.status # "CONNECTION_OK"
                 THEN /\ i' = i + 1
                      /\ pc' = "for"
                 ELSE /\ i' = i
                      /\ pc' = "probe"
    /\ UNCHANGED <<nodes, server, master_id_arg, conninfo_arg, master_id,
                   res, res_state, query_failed, probes, retval>>

\* the probe step deciding by the type the registry stores for the node
\* instead of asking the server
ProbeTrustingStoredType ==
    /\ pc = "probe"
    /\ LET is_node_standby == IF nodes[node_id[1]].type = "master" THEN 0 ELSE 1
       IN  /\ probes' = Append(probes, [conn |-> remote_conn,
                                        result |-> is_node_standby])
           /\ IF is_node_standby = 0
              THEN /\ res_state' = "cleared"
                   /\ master_id' = IF master_id_arg THEN node_id ELSE master_id
                   /\ retval' = remote_conn
                   /\ pc' = "done"
                   /\ UNCHANGED <<conns, i>>
              ELSE /\ conns' = [conns EXCEPT ![remote_conn].finished = TRUE]
                   /\ i' = i + 1
                   /\ pc' = "for"
                   /\ UNCHANGED <<res_state, master_id, retval>>
    /\ UNCHANGED <<nodes, server, master_id_arg, conninfo_arg,
                   remote_conninfo, res, query_failed, node_id, remote_conn>>

\* the probe step without the return at line 651: the loop goes on
ProbeWithoutReturn ==
    /\ pc = "probe"
    /\ LET is_node_standby == is_standby(server[conns[remote_conn].server])
       IN  /\ probes' = Append(probes, [conn |-> remote_conn,
                                        result |-> is_node_standby])
           /\ IF is_node_standby = 0
              THEN /\ master_id' = IF master_id_arg THEN node_id ELSE master_id
                   /\ retval' = remote_conn
                   /\ UNCHANGED <<conns>>
              ELSE /\ conns' = [conns EXCEPT ![remote_conn].finished = TRUE]
                   /\ UNCHANGED <<master_id, retval>>
           /\ i' = i + 1
           /\ pc' = "for"
           /\ UNCHANGED res_state
    /\ UNCHANGED <<nodes, server, master_id_arg, conninfo_arg,
                   remote_conninfo, res, query_failed, node_id, remote_conn>>

\* the probe step going back to the loop without the i++ of line 614
ProbeWithoutAdvance ==
    /\ pc = "probe"
    /\ LET is_node_standby == is_standby(server[conns[remote_conn].server])
       IN  /\ probes' = Append(probes, [conn |-> remote_conn,
                                        result |-> is_node_standby])
           /\ IF is_node_standby = 0
              THEN /\ res_state' = "cleared"
                   /\ master_id' = IF master_id_arg THEN node_id ELSE master_id
                   /\ retval' = remote_conn
                   /\ pc' = "done"
                   /\ UNCHANGED <<conns, i>>
              ELSE /\ conns' = [conns EXCEPT ![remote_conn].finished = TRUE]
                   /\ i' = i
                   /\ pc' = "for"
                   /\ UNCHANGED <<res_state, master_id, retval>>
    /\ UNCHANGED <<nodes, server, master_id_arg, conninfo_arg,
                   remote_conninfo, res, query_failed, node_id, remote_conn>>

\* lines 629-654: the connected candidate is asked whether it is in recovery
Probe ==
    /\ pc = "probe"
    /\ LET is_node_standby == is_standby(server[conns[remote_conn].server])
       IN  /\ probes' = Append(probes, [conn |-> remote_conn,
                                        result |-> is_node_standby])
           /\ IF is_node_standby = 0
              THEN /\ res_state' = "cleared"
                   /\ master_id' = IF master_id_arg THEN node_id ELSE master_id
                   /\ retval' = remote_conn
                   /\ pc' = "done"
                   /\ UNCHANGED <<conns, i>>
              ELSE /\ conns' = [conns EXCEPT ![remote_conn].finished = TRUE]
                   /\ i' = i + 1
                   /\ pc' = "for"
                   /\ UNCHANGED <<res_state, master_id, retval>>
    /\ UNCHANGED <<nodes, server, master_id_arg, conninfo_arg,
                   remote_conninfo, res, query_failed, node_id, remote_conn>>

\* the loop exit returning the last handle instead of NULL
LoopExitReturningLast ==
    /\ pc = "for"
    /\ ~(i < Len(res))
    /\ res_state' = "cleared"
    /\ retval' = remote_conn
    /\ pc' = "done"
    /\ UNCHANGED <<nodes, server, master_id_arg, conninfo_arg, master_id,
                   remote_conninfo, res, query_failed, i, node_id,
                   remote_conn, conns, probes>>

\* lines 614, 657-658: the rows are exhausted
LoopExit ==
    /\ pc = "for"
    /\ ~(i < Len(res))
    /\ res_state' = "cleared"
    /\ retval' = NULL
    /\ pc' = "done"
    /\ UNCHANGED <<nodes, server, master_id_arg, conninfo_arg, master_id,
                   remote_conninfo, res, query_failed, i, node_id,
                   remote_conn, conns, probes>>

(***************************************************************************)
(* t_conninfo_param_list                                                   *)
(***************************************************************************)
\* a NULL char pointer (an empty string is "")
NullStr == "<NULL>"

\* what PQconndefaults() returns: the options the driver knows, each with its
\* default value (NULL, empty or set)
DriverOptions ==
    <<[keyword |-> "host", val |-> NullStr],
      [keyword |-> "port", val |-> "5432"],
      [keyword |-> "application_name", val |-> ""],
      [keyword |-> "user", val |-> "repmgr"]>>

PQconndefaults == SubSeq(DriverOptions, 1, MaxOptions)

\* the keywords and values callers pass to param_set
Keywords == {PQconndefaults[k].keyword : k \in 1..Len(PQconndefaults)}
                \cup {"no_such_option"}

Values == {"", "5432", "repmgr"}

\* the scan both param_set and param_get start with:
\*   for (c = 0; c < size && keywords[c] != NULL; c++)
\*       if (strcmp(keywords[c], param) == 0) ...
\* found: the loop body matched at c; otherwise c is where the loop stopped
RECURSIVE ScanFor(_, _, _)
ScanFor(list, param, c) ==
    IF c < list.size /\ list.keywords[c + 1] # NullStr
    THEN IF list.keywords[c + 1] = param
         THEN [found |-> TRUE, c |-> c]
         ELSE ScanFor(list, param, c + 1)
    ELSE [found |-> FALSE, c |-> c]

\* param_set appending without looking for the keyword
param_set_appending(list, param, value) ==
    LET s == ScanFor(list, NullStr, 0)
    IN  IF s.c < list.size
        THEN [list EXCEPT !.keywords[s.c + 1] = param,
                          !.values[s.c + 1] = value]
        ELSE list

\* param_set reusing the last slot when the list is full
param_set_reusing_last(list, param, value) ==
    LET s == ScanFor(list, param, 0)
    IN  IF s.found
        THEN [list EXCEPT !.values[s.c + 1] = value]
        ELSE IF s.c < list.size
        THEN [list EXCEPT !.keywords[s.c + 1] = param,
                          !.values[s.c + 1] = value]
        ELSE [list EXCEPT !.keywords[list.size] = param,
                          !.values[list.size] = value]

param_set(list, param, value) ==
    LET s == ScanFor(list, param, 0)
    IN  IF s.found
        THEN [list EXCEPT !.values[s.c + 1] = value]
        ELSE IF s.c < list.size
        THEN [list EXCEPT !.keywords[s.c + 1] = param,
                          !.values[s.c + 1] = value]
        ELSE list

\* param_get without the test for an empty value
param_get_returning_empty(list, param) ==
    LET s == ScanFor(list, param, 0)
    IN  IF s.found /\ list.values[s.c + 1] # NullStr
        THEN list.values[s.c + 1]
        ELSE NullStr

param_get(list, param) ==
    LET s == ScanFor(list, param, 0)
    IN  IF s.found
        THEN IF list.values[s.c + 1] # NullStr /\ list.values[s.c + 1] # ""
             THEN list.values[s.c + 1]
             ELSE NullStr
        ELSE NullStr

\* the second loop of initialize_conninfo_params, from option d (1-based) on
RECURSIVE PresetDefaults(_, _, _)
PresetDefaults(list, defs, d) ==
    IF d > Len(defs) THEN list
    ELSE PresetDefaults(
             IF defs[d].val # NullStr /\ defs[d].val # ""
             THEN param_set(list, defs[d].keyword, defs[d].val)
             ELSE list,
             defs, d + 1)

\* the arrays hold size + 1 pointers; the last one is never written and is
\* left out here
initialize_conninfo_params(set_defaults) ==
    LET defs  == PQconndefaults
        empty == [size     |-> Len(defs),
                  keywords |-> [c \in 1..Len(defs) |-> NullStr],
                  values   |-> [c \in 1..Len(defs) |-> NullStr]]
    IN  IF set_defaults THEN PresetDefaults(empty, defs, 1) ELSE empty

\* the loop of copy_conninfo_params copying empty values as well
RECURSIVE CopyFromWithEmpty(_, _, _)
CopyFromWithEmpty(dest_list, source_list, c) ==
    IF c < source_list.size /\ source_list.keywords[c + 1] # NullStr
    THEN CopyFromWithEmpty(
             IF source_list.values[c + 1] # NullStr
             THEN param_set(dest_list, source_list.keywords[c + 1],
                            source_list.values[c + 1])
             ELSE dest_list,
             source_list, c + 1)
    ELSE dest_list

\* the loop of copy_conninfo_params, from index c (0-based) on
RECURSIVE CopyFrom(_, _, _)
CopyFrom(dest_list, source_list, c) ==
    IF c < source_list.size /\ source_list.keywords[c + 1] # NullStr
    THEN CopyFrom(
             IF source_list.values[c + 1] # NullStr
                /\ source_list.values[c + 1] # ""
             THEN param_set(dest_list, source_list.keywords[c + 1],
                            source_list.values[c + 1])
             ELSE dest_list,
             source_list, c + 1)
    ELSE dest_list

copy_conninfo_params(dest_list, source_list) == CopyFrom(dest_list, source_list, 0)

\* the lists copy_conninfo_params is given as its source: those made by
\* initialize_conninfo_params and at most one param_set call
SourceLists ==
    LET fresh == {initialize_conninfo_params(d) : d \in BOOLEAN}
        once  == {param_set(l, k, v) : l \in fresh, k \in Keywords, v \in Values}
    IN  fresh \cup once

\* the number of entries of the list that hold keyword k
EntriesFor(list, k) == Cardinality({c \in 1..list.size : list.keywords[c] = k})

\* the source recorded for an operation that takes none
NoSource == initialize_conninfo_params(FALSE)

Initialize ==
    /\ \E set_defaults \in BOOLEAN :
          param_list' = initialize_conninfo_params(set_defaults)
    /\ hist' = <<>>
    /\ last_op' = [op |-> "initialize", before |-> param_list, source |-> NoSource]
    /\ UNCHANGED <<gmc_vars, reg_vars>>

ParamSet ==
    /\ \E param \in Keywords, value \in Values :
          /\ param_list' = param_set(param_list, param, value)
          /\ hist' = IF hist = <<>>
                     THEN <<[param |-> param, value |-> value]>>
                     ELSE <<hist[Len(hist)], [param |-> param, value |-> value]>>
    /\ last_op' = [op |-> "set", before |-> param_list, source |-> NoSource]
    /\ UNCHANGED <<gmc_vars, reg_vars>>

CopyParams ==
    /\ \E source_list \in SourceLists :
          /\ param_list' = copy_conninfo_params(param_list, source_list)
          /\ last_op' = [op |-> "copy", before |-> param_list,
                         source |-> source_list]
    /\ hist' = <<>>
    /\ UNCHANGED <<gmc_vars, reg_vars>>

\* what PQconninfoParse() returns for a well-formed conninfo string: every
\* option the driver knows, with the value the string gives it (NULL when the
\* string does not name it)
ParsedValues == {NullStr, "", "5432"}

PQconninfoParse ==
    {[o \in 1..Len(PQconndefaults) |->
         [keyword |-> PQconndefaults[o].keyword, val |-> v[o]]] :
       v \in [1..Len(PQconndefaults) -> ParsedValues]}

\* the loop of parse_conninfo_string, from option o (1-based) on
RECURSIVE ParseFrom(_, _, _, _)
ParseFrom(list, connOptions, o, ignore_application_name) ==
    IF o > Len(connOptions) THEN list
    ELSE ParseFrom(
             IF connOptions[o].val = NullStr \/ connOptions[o].val = ""
             THEN list
             ELSE IF ignore_application_name
                     /\ connOptions[o].keyword = "application_name"
             THEN list
             ELSE param_set(list, connOptions[o].keyword, connOptions[o].val),
             connOptions, o + 1, ignore_application_name)

\* parse_conninfo_string on a string PQconninfoParse accepts
parse_conninfo_string(connOptions, list, ignore_application_name) ==
    ParseFrom(list, connOptions, 1, ignore_application_name)

\* parse_conninfo_string: the string is rejected by PQconninfoParse (the list
\* is left alone, false is returned) or parsed into the list
ParseParams ==
    /\ \/ param_list' = param_list
       \/ \E connOptions \in PQconninfoParse, ignore \in BOOLEAN :
             param_list' = parse_conninfo_string(connOptions, param_list, ignore)
    /\ hist' = <<>>
    /\ last_op' = [op |-> "parse", before |-> param_list, source |-> NoSource]
    /\ UNCHANGED <<gmc_vars, reg_vars>>

(***************************************************************************)
(* Specifications.                                                         *)
(***************************************************************************)
vars == <<gmc_vars, param_vars, reg_vars>>

(***************************************************************************)
(* Node records: repmgr.nodes, t_node_info                                 *)
(***************************************************************************)
\* values of repmgr.h, which the functions below return or compare with
NO_UPSTREAM_NODE == -1
NODE_RECORD_NOT_FOUND == 0
NODE_RECORD_QUERY_ERROR == -1

\* t_server_type
ServerTypes == {"UNKNOWN", "MASTER", "STANDBY", "WITNESS", "BDR"}

parse_node_type(type) ==
    IF type = "master" THEN "MASTER"
    ELSE IF type = "standby" THEN "STANDBY"
    ELSE IF type = "witness" THEN "WITNESS"
    ELSE IF type = "bdr" THEN "BDR"
    ELSE "UNKNOWN"

get_node_type_string(type) ==
    CASE type = "MASTER"  -> "master"
      [] type = "STANDBY" -> "standby"
      [] type = "WITNESS" -> "witness"
      [] type = "BDR"     -> "bdr"
      [] OTHER            -> "unknown"

atobool(value) == IF value = "t" THEN TRUE ELSE FALSE

\* how the server prints a boolean column
BoolOut(b) == IF b THEN "t" ELSE "f"

\* what the server reads for the keywords TRUE and FALSE of the statement
BoolIn(keyword) == keyword = "TRUE"

\* Text is a sequence of characters.  What the server reads when text is put
\* between single quotes into a statement ('%s'): two quotes are one quote
\* of the value, a single quote ends the literal and what follows it is not
\* a statement over these characters
RECURSIVE QuotedLiteral(_)
QuotedLiteral(text) ==
    IF text = <<>> THEN [ok |-> TRUE, value |-> <<>>]
    ELSE IF Head(text) # "'"
    THEN LET rest == QuotedLiteral(Tail(text))
         IN  [ok |-> rest.ok, value |-> <<Head(text)>> \o rest.value]
    ELSE IF Len(text) >= 2 /\ text[2] = "'"
    THEN LET rest == QuotedLiteral(Tail(Tail(text)))
         IN  [ok |-> rest.ok, value |-> <<"'">> \o rest.value]
    ELSE [ok |-> FALSE, value |-> <<>>]

\* the node_name and slot_name a caller's record comes with
NodeTexts ==
    { [node_name |-> <<"n">>,           slot_name |-> <<>>],
      [node_name |-> <<"n">>,           slot_name |-> <<"s">>],
      [node_name |-> <<"n", "'", "'">>, slot_name |-> <<>>],
      [node_name |-> <<"n", "'">>,      slot_name |-> <<>>] }

ConninfoText(n) == <<"h", ToString(n)>>

\* the records callers pass to create_node_record and update_node_record;
\* the caller has used the runtime fields
GivenRecords ==
    { [node_id |-> n, type |-> t, upstream_node_id |-> u,
       node_name |-> x.node_name, conninfo |-> ConninfoText(n),
       slot_name |-> x.slot_name, priority |-> 100, active |-> a,
       is_ready |-> TRUE, is_visible |-> TRUE, xlog_location |-> "0/3000000"] :
      n \in Nodes, t \in {"MASTER", "STANDBY", "WITNESS"},
      u \in {NO_UPSTREAM_NODE} \cup Nodes, x \in NodeTexts, a \in BOOLEAN }

\* a t_node_info no function has filled
BlankInfo ==
    [node_id |-> 0, type |-> "UNKNOWN", upstream_node_id |-> NO_UPSTREAM_NODE,
     node_name |-> <<>>, conninfo |-> <<>>, slot_name |-> <<>>,
     priority |-> 0, active |-> FALSE,
     is_ready |-> FALSE, is_visible |-> FALSE,
     xlog_location |-> "InvalidXLogRecPtr"]

\* the rows of repmgr.nodes: nodes[n] is <<>> when no row has node_id n
StoredRows(reg) == {reg[n][1] : n \in {m \in DOMAIN reg : reg[m] # <<>>}}

\* get_master_node_id: the values it can return.  The query has no ORDER BY,
\* so row 0 is any of the rows that match
get_master_node_id(rows, query_ok) ==
    LET matching == {r \in rows : r.type = "master" /\ r.active}
    IN  IF ~query_ok THEN {NODE_NOT_FOUND}
        ELSE IF matching = {} THEN {NODE_NOT_FOUND}
        ELSE {r.node_id : r \in matching}

\* whether create_node_record / update_node_record call get_master_node_id
ResolvesUpstream(info) ==
    info.upstream_node_id = NO_UPSTREAM_NODE /\ info.type = "STANDBY"

\* the upstream_node_id written with the primary looked up for every type
UpstreamNodeIdOfAnyType(info, primary_node_id) ==
    IF info.upstream_node_id = NO_UPSTREAM_NODE
    THEN <<primary_node_id>>
    ELSE <<info.upstream_node_id>>

\* the upstream_node_id written into the statement: <<>> for NULL
UpstreamNodeId(info, primary_node_id) ==
    IF info.upstream_node_id = NO_UPSTREAM_NODE
    THEN IF info.type = "STANDBY" THEN <<primary_node_id>> ELSE <<>>
    ELSE <<info.upstream_node_id>>

\* the slot_name written into the statement: NULL or a quoted literal
SlotNameBuf(info) ==
    IF info.slot_name # <<>>
    THEN [null |-> FALSE, text |-> QuotedLiteral(info.slot_name)]
    ELSE [null |-> TRUE, text |-> [ok |-> TRUE, value |-> <<>>]]

\* the row the INSERT or UPDATE statement built from info describes, and
\* whether the server can read the statement
StatementRow(info, primary_node_id) ==
    LET name == QuotedLiteral(info.node_name)
        conn == QuotedLiteral(info.conninfo)
        slot == SlotNameBuf(info)
    IN  [ok  |-> name.ok /\ conn.ok /\ slot.text.ok,
         row |-> [node_id          |-> info.node_id,
                  type             |-> get_node_type_string(info.type),
                  upstream_node_id |-> UpstreamNodeId(info, primary_node_id),
                  node_name        |-> name.value,
                  conninfo         |-> conn.value,
                  slot_name        |-> IF slot.null THEN <<>> ELSE <<slot.text.value>>,
                  priority         |-> info.priority,
                  active           |-> BoolIn(IF info.active = TRUE
                                              THEN "TRUE" ELSE "FALSE")]]

\* node_id is the primary key of repmgr.nodes
DuplicateKey(reg, id) == reg[id] # <<>>

\* _populate_node_record.  PQgetvalue gives "" for a null column
populate_node_record(row) ==
    [node_id |-> row.node_id,
     type |-> parse_node_type(row.type),
     upstream_node_id |-> IF row.upstream_node_id = <<>>
                          THEN NO_UPSTREAM_NODE ELSE row.upstream_node_id[1],
     node_name |-> row.node_name,
     conninfo |-> row.conninfo,
     slot_name |-> IF row.slot_name = <<>> THEN <<>> ELSE row.slot_name[1],
     priority |-> row.priority,
     active |-> atobool(BoolOut(row.active)),
     is_ready |-> FALSE, is_visible |-> FALSE,
     xlog_location |-> "InvalidXLogRecPtr"]

\* _get_node_record clearing the caller's record when no row is selected
get_node_record_clearing(selected, query_ok, info) ==
    IF ~query_ok
    THEN [result |-> NODE_RECORD_QUERY_ERROR, node_info |-> info, cleared |-> TRUE]
    ELSE IF selected = <<>>
    THEN [result |-> NODE_RECORD_NOT_FOUND, node_info |-> BlankInfo,
          cleared |-> TRUE]
    ELSE [result |-> Len(selected),
          node_info |-> populate_node_record(selected[1]), cleared |-> TRUE]

\* _get_node_record on the rows the query selects
get_node_record(selected, query_ok, info) ==
    IF ~query_ok
    THEN [result |-> NODE_RECORD_QUERY_ERROR, node_info |-> info, cleared |-> TRUE]
    ELSE IF selected = <<>>
    THEN [result |-> NODE_RECORD_NOT_FOUND, node_info |-> info, cleared |-> TRUE]
    ELSE [result |-> Len(selected),
          node_info |-> populate_node_record(selected[1]), cleared |-> TRUE]

\* get_server_version: the value returned and whether the result was cleared
get_server_version(query_ok) ==
    IF ~query_ok THEN [result |-> -1, cleared |-> TRUE]
    ELSE [result |-> 90500, cleared |-> FALSE]

\* begin_transaction, commit_transaction, rollback_transaction and
\* _set_config: PQexec, the status test, PQclear on both paths
exec_command(command_ok) ==
    IF ~command_ok THEN [result |-> FALSE, cleared |-> TRUE]
    ELSE [result |-> TRUE, cleared |-> TRUE]

\* no call made
NoCall ==
    [op |-> "none", node_id |-> 0, ok |-> TRUE, result |-> <<>>,
     info_before |-> BlankInfo, after_create |-> FALSE,
     primary_node_id |-> <<>>, stored |-> <<>>, cleared |-> TRUE,
     nodes_before |-> <<>>]

\* the registry before the call: each node has no row, or is stored as an
\* active master or as an active standby of no upstream
InitialRows(n) ==
    { <<>> } \cup
    { <<[node_id |-> n, type |-> t, upstream_node_id |-> <<>>,
         node_name |-> <<"n">>, conninfo |-> ConninfoText(n),
         slot_name |-> <<>>, priority |-> 100, active |-> TRUE]>> :
      t \in {"master", "standby"} }

RegIdle ==
    /\ node_info = BlankInfo
    /\ call = NoCall
    /\ written = FALSE

\* the functions called by create_node_record and update_node_record before
\* the statement is sent: the primary node ids get_master_node_id can report
PrimaryNodeIds(info) ==
    IF ResolvesUpstream(info)
    THEN {<<id>> : id \in get_master_node_id(StoredRows(nodes), TRUE)
                          \cup get_master_node_id(StoredRows(nodes), FALSE)}
    ELSE {<<>>}

CreateNodeRecord ==
    /\ ~written
    /\ \E r \in GivenRecords, exec_ok \in BOOLEAN :
         \E primary_node_id \in PrimaryNodeIds(r) :
            LET st == StatementRow(r, IF primary_node_id = <<>> THEN 0
                                      ELSE primary_node_id[1])
                success == exec_ok /\ st.ok /\ ~DuplicateKey(nodes, r.node_id)
            IN  /\ nodes' = IF success
                            THEN [nodes EXCEPT ![r.node_id] = <<st.row>>]
                            ELSE nodes
                /\ node_info' = r
                /\ call' = [op |-> "create", node_id |-> r.node_id,
                            ok |-> exec_ok, result |-> <<success>>,
                            info_before |-> r, after_create |-> FALSE,
                            primary_node_id |-> primary_node_id,
                            stored |-> IF success THEN <<st.row>> ELSE <<>>,
                            cleared |-> TRUE, nodes_before |-> nodes]
    /\ written' = TRUE
    /\ UNCHANGED <<server, pc, master_id_arg, conninfo_arg, master_id,
                   remote_conninfo, res, res_state, query_failed, i, node_id,
                   remote_conn, conns, probes, retval, param_vars>>

\* update_node_record inserting the row when no row has the node_id
UpdateNodeRecordInserting ==
    /\ ~written
    /\ \E r \in GivenRecords, exec_ok \in BOOLEAN :
         \E primary_node_id \in PrimaryNodeIds(r) :
            LET st == StatementRow(r, IF primary_node_id = <<>> THEN 0
                                      ELSE primary_node_id[1])
                success == exec_ok /\ st.ok
            IN  /\ nodes' = IF success
                            THEN [nodes EXCEPT ![r.node_id] = <<st.row>>]
                            ELSE nodes
                /\ node_info' = r
                /\ call' = [op |-> "update", node_id |-> r.node_id,
                            ok |-> exec_ok, result |-> <<success>>,
                            info_before |-> r, after_create |-> FALSE,
                            primary_node_id |-> primary_node_id,
                            stored |-> IF success THEN <<st.row>> ELSE <<>>,
                            cleared |-> TRUE, nodes_before |-> nodes]
    /\ written' = TRUE
    /\ UNCHANGED <<server, pc, master_id_arg, conninfo_arg, master_id,
                   remote_conninfo, res, res_state, query_failed, i, node_id,
                   remote_conn, conns, probes, retval, param_vars>>

UpdateNodeRecord ==
    /\ ~written
    /\ \E r \in GivenRecords, exec_ok \in BOOLEAN :
         \E primary_node_id \in PrimaryNodeIds(r) :
            LET st == StatementRow(r, IF primary_node_id = <<>> THEN 0
                                      ELSE primary_node_id[1])
                success == exec_ok /\ st.ok
            IN  /\ nodes' = IF success /\ nodes[r.node_id] # <<>>
                            THEN [nodes EXCEPT ![r.node_id] = <<st.row>>]
                            ELSE nodes
                /\ node_info' = r
                /\ call' = [op |-> "update", node_id |-> r.node_id,
                            ok |-> exec_ok, result |-> <<success>>,
                            info_before |-> r, after_create |-> FALSE,
                            primary_node_id |-> primary_node_id,
                            stored |-> IF success /\ nodes[r.node_id] # <<>>
                                       THEN <<st.row>> ELSE <<>>,
                            cleared |-> TRUE, nodes_before |-> nodes]
    /\ written' = TRUE
    /\ UNCHANGED <<server, pc, master_id_arg, conninfo_arg, master_id,
                   remote_conninfo, res, res_state, query_failed, i, node_id,
                   remote_conn, conns, probes, retval, param_vars>>

GetNodeRecord ==
    /\ \E id \in Nodes, query_ok \in BOOLEAN :
          LET got == get_node_record(nodes[id], query_ok, node_info)
          IN  /\ node_info' = got.node_info
              /\ call' = [op |-> "get", node_id |-> id, ok |-> query_ok,
                          result |-> <<got.result>>,
                          info_before |-> node_info,
                          after_create |-> /\ call.op = "create"
                                           /\ call.result = <<TRUE>>
                                           /\ call.node_id = id,
                          primary_node_id |-> <<>>, stored |-> <<>>,
                          cleared |-> got.cleared, nodes_before |-> nodes]
    /\ UNCHANGED <<gmc_vars, param_vars, written>>

GetMasterNodeId ==
    /\ \E query_ok \in BOOLEAN :
         \E id \in get_master_node_id(StoredRows(nodes), query_ok) :
            call' = [op |-> "master_id", node_id |-> 0, ok |-> query_ok,
                     result |-> <<id>>, info_before |-> node_info,
                     after_create |-> FALSE, primary_node_id |-> <<>>,
                     stored |-> <<>>, cleared |-> TRUE,
                     nodes_before |-> nodes]
    /\ UNCHANGED <<gmc_vars, param_vars, node_info, written>>

GetServerVersion ==
    /\ \E query_ok \in BOOLEAN :
          LET got == get_server_version(query_ok)
          IN  call' = [op |-> "version", node_id |-> 0, ok |-> query_ok,
                       result |-> <<got.result>>, info_before |-> node_info,
                       after_create |-> FALSE, primary_node_id |-> <<>>,
                       stored |-> <<>>, cleared |-> got.cleared,
                       nodes_before |-> nodes]
    /\ UNCHANGED <<gmc_vars, param_vars, node_info, written>>

ExecCommand ==
    /\ \E command_ok \in BOOLEAN :
          LET got == exec_command(command_ok)
          IN  call' = [op |-> "command", node_id |-> 0, ok |-> command_ok,
                       result |-> <<got.result>>, info_before |-> node_info,
                       after_create |-> FALSE, primary_node_id |-> <<>>,
                       stored |-> <<>>, cleared |-> got.cleared,
                       nodes_before |-> nodes]
    /\ UNCHANGED <<gmc_vars, param_vars, node_info, written>>

\* the variables get_master_connection does not touch
other_vars == <<param_vars, reg_vars>>

\* no parameter list operation is under way
ParamIdle ==
    /\ param_list = initialize_conninfo_params(FALSE)
    /\ hist = <<>>
    /\ last_op = [op |-> "none", before |-> NoSource, source |-> NoSource]

\* get_master_connection is not called
GmcIdle ==
    /\ nodes = [n \in Nodes |->
                  [node_id |-> n, type |-> "standby", priority |-> 100,
                   active |-> TRUE, conninfo |-> ConninfoFor(n)]]
    /\ server = [n \in Nodes |-> "down"]
    /\ pc = "idle"
    /\ master_id_arg = FALSE
    /\ conninfo_arg = FALSE
    /\ master_id = <<>>
    /\ remote_conninfo = <<>>
    /\ res = <<>>
    /\ res_state = "none"
    /\ query_failed = FALSE
    /\ i = 0
    /\ node_id = <<>>
    /\ remote_conn = NULL
    /\ conns = <<>>
    /\ probes = <<>>
    /\ retval = NULL

\* primary discovery: one call of get_master_connection on any registry
Init ==
    /\ GmcInit
    /\ ParamIdle
    /\ RegIdle

Next ==
    \/ (Call /\ UNCHANGED other_vars)
    \/ (Connect /\ UNCHANGED other_vars)
    \/ (Probe /\ UNCHANGED other_vars)
    \/ (LoopExit /\ UNCHANGED other_vars)

Spec == Init /\ [][Next]_vars

\* the parameter list: any sequence of initialize, set, copy and parse
ParamInit ==
    /\ GmcIdle
    /\ \E set_defaults \in BOOLEAN :
          param_list = initialize_conninfo_params(set_defaults)
    /\ hist = <<>>
    /\ last_op = [op |-> "none", before |-> NoSource, source |-> NoSource]
    /\ RegIdle

ParamNext == Initialize \/ ParamSet \/ CopyParams \/ ParseParams

ParamSpec == ParamInit /\ [][ParamNext]_vars

\* the rows of a registry that other sessions change while
\* get_master_connection runs: a node names the next node or itself as its
\* upstream, so the upstream links always hold a cycle.  No statement of
\* get_master_connection reads the column, so only the first row's varies
UpstreamsOf(n) == IF n = 1 THEN {n, (n % MaxNode) + 1} ELSE {(n % MaxNode) + 1}

ChurnRows(n) == [type : {"standby", "witness"}, upstream_node_id : UpstreamsOf(n)]

\* another session updates one row of repmgr.nodes during the call
RegistryChange ==
    /\ pc \in {"for", "probe"}
    /\ \E n \in Nodes : \E row \in ChurnRows(n) :
          /\ nodes' = [nodes EXCEPT ![n].type = row.type,
                                    ![n].upstream_node_id = row.upstream_node_id]
          /\ nodes' # nodes
    /\ UNCHANGED <<server, pc, master_id_arg, conninfo_arg, master_id,
                   remote_conninfo, res, res_state, query_failed, i, node_id,
                   remote_conn, conns, probes, retval, other_vars>>

\* one call of get_master_connection on a registry that changes under it
ChurnInit ==
    /\ \E rows \in {f \in [Nodes -> UNION {ChurnRows(n) : n \in Nodes}] :
                        \A n \in Nodes : f[n] \in ChurnRows(n)} :
          nodes = [n \in Nodes |->
                     [node_id |-> n, type |-> rows[n].type, priority |-> 100,
                      active |-> TRUE, conninfo |-> ConninfoFor(n),
                      upstream_node_id |-> rows[n].upstream_node_id]]
    /\ server \in [Nodes -> ServerStates]
    /\ pc = "idle"
    /\ master_id_arg = FALSE
    /\ conninfo_arg = FALSE
    /\ master_id = <<>>
    /\ remote_conninfo = <<>>
    /\ res = <<>>
    /\ res_state = "none"
    /\ query_failed = FALSE
    /\ i = 0
    /\ node_id = <<>>
    /\ remote_conn = NULL
    /\ conns = <<>>
    /\ probes = <<>>
    /\ retval = NULL
    /\ ParamIdle
    /\ RegIdle

\* the steps of get_master_connection
FunctionStep ==
    \/ (Call /\ UNCHANGED other_vars)
    \/ (Connect /\ UNCHANGED other_vars)
    \/ (Probe /\ UNCHANGED other_vars)
    \/ (LoopExit /\ UNCHANGED other_vars)

ChurnNext == FunctionStep \/ RegistryChange

ChurnSpec == ChurnInit /\ [][ChurnNext]_vars

\* the node registry: reads at any time and one create or update
RegInit ==
    /\ nodes \in {reg \in [Nodes -> UNION {InitialRows(n) : n \in Nodes}] :
                     \A n \in Nodes : reg[n] \in InitialRows(n)}
    /\ server = [n \in Nodes |-> "down"]
    /\ pc = "idle"
    /\ master_id_arg = FALSE
    /\ conninfo_arg = FALSE
    /\ master_id = <<>>
    /\ remote_conninfo = <<>>
    /\ res = <<>>
    /\ res_state = "none"
    /\ query_failed = FALSE
    /\ i = 0
    /\ node_id = <<>>
    /\ remote_conn = NULL
    /\ conns = <<>>
    /\ probes = <<>>
    /\ retval = NULL
    /\ ParamIdle
    /\ RegIdle

RegNext ==
    \/ CreateNodeRecord
    \/ UpdateNodeRecord
    \/ GetNodeRecord
    \/ GetMasterNodeId
    \/ GetServerVersion
    \/ ExecCommand

RegSpec == RegInit /\ [][RegNext]_vars

(***************************************************************************)
(* Properties of get_master_connection.                                    *)
(***************************************************************************)
\* the server a candidate row leads to
CandidateServer(k) == ServerOf(res[k].conninfo)

\* the call returned after having read the node list
Returned == pc = "done" /\ ~query_failed

\* the results of the probes made on handle h
ProbeResults(h) == {probes[p].result : p \in {q \in 1..Len(probes) : probes[q].conn = h}}

\* C1: whenever get_master_connection returns a connection, a probe made on
\* that connection during the call answered "not recovering" and the server
\* behind it is not in recovery, whatever type the registry stores for it; with
\* node 1 stored as master but in recovery and node 2 stored as standby but
\* not in recovery (no other server out of recovery), node 2 is returned.
C1_RolesNotTrusted ==
    /\ (pc = "done" /\ retval # NULL) =>
          /\ ProbeResults(retval) = {0}
          /\ server[conns[retval].server] = "primary"
          /\ master_id_arg => /\ master_id = <<conns[retval].server>>
                              /\ server[master_id[1]] = "primary"
    /\ ( /\ Returned
         /\ nodes[1].type = "master" /\ server[1] = "standby"
         /\ nodes[2].type = "standby" /\ server[2] = "primary"
         /\ \A n \in Nodes \ {1, 2} : server[n] # "primary" ) =>
          /\ retval # NULL
          /\ conns[retval].server = 2
          /\ master_id_arg => master_id = <<2>>

C1_Witness ==
    /\ Returned
    /\ nodes[1].type = "master" /\ nodes[1].active /\ server[1] = "standby"
    /\ nodes[2].type = "standby" /\ server[2] = "primary"
    /\ \A n \in Nodes \ {1, 2} : server[n] # "primary"
    /\ Len(conns) >= 2 /\ conns[1].server = 1 /\ ProbeResults(1) = {1}
    /\ retval # NULL /\ conns[retval].server = 2
    /\ master_id = <<2>>

\* the order the claim states, on the stored rows of nodes m and n
StoredBefore(m, n) ==
    \/ nodes[m].active /\ ~nodes[n].active
    \/ /\ nodes[m].active = nodes[n].active
       /\ \/ nodes[m].type = "master" /\ nodes[n].type # "master"
          \/ /\ (nodes[m].type = "master") = (nodes[n].type = "master")
             /\ \/ nodes[m].priority < nodes[n].priority
                \/ /\ nodes[m].priority = nodes[n].priority
                   /\ m < n

\* handle k was rejected: the connection failed, the probe failed or the
\* probe answered "recovering"
Rejected(k) ==
    \/ conns[k].status # "CONNECTION_OK" /\ ProbeResults(k) = {}
    \/ ProbeResults(k) = {-1}
    \/ ProbeResults(k) = {1}

\* C2: the candidates are tried in the order active descending, stored
\* master first, priority ascending, node_id ascending; the node returned is
\* the first in that order that is reachable and answers "not recovering",
\* and every candidate before it was rejected.
C2_ProbeOrder ==
    Returned =>
        /\ \A a, b \in 1..Len(res) :
              a < b => StoredBefore(res[a].node_id, res[b].node_id)
        /\ \A k \in 1..Len(conns) : conns[k].conninfo = res[k].conninfo
        /\ retval # NULL =>
              /\ server[CandidateServer(retval)] = "primary"
              /\ \A j \in 1..(retval - 1) :
                    /\ server[CandidateServer(j)] # "primary"
                    /\ Rejected(j)

C2_Witness ==
    /\ Returned
    /\ Len(res) >= 2
    /\ res[1].node_id > res[2].node_id
    /\ retval = 2
    /\ Rejected(1)

\* C3: once a probe has answered "not recovering" the call has returned that
\* connection, it is the last handle opened and the last probe made, and at
\* most one probe of a call answers "not recovering".
C3_ShortCircuit ==
    /\ \A p \in 1..Len(probes) :
          probes[p].result = 0 =>
              /\ p = Len(probes)
              /\ probes[p].conn = Len(conns)
              /\ pc = "done"
              /\ retval = probes[p].conn
    /\ Cardinality({p \in 1..Len(probes) : probes[p].result = 0}) <= 1
    /\ Len(conns) <= Len(res)

C3_Witness ==
    /\ Returned
    /\ retval # NULL
    /\ retval < Len(res)
    /\ server[CandidateServer(Len(res))] = "primary"
    /\ Len(conns) = retval
    /\ Len(probes) = 1

\* C4: when no candidate is both reachable and not recovering, the call
\* returns NULL after having tried every candidate of the list, and
\* *master_id (when given) holds NODE_NOT_FOUND.
C4_NoPrimaryFound ==
    ( /\ Returned
      /\ \A k \in 1..Len(res) : server[CandidateServer(k)] # "primary" ) =>
        /\ retval = NULL
        /\ master_id_arg => master_id = <<NODE_NOT_FOUND>>
        /\ Len(conns) = Len(res)
        /\ \A k \in 1..Len(conns) : Rejected(k)

C4_Witness ==
    /\ Returned
    /\ Len(res) >= 2
    /\ server[CandidateServer(1)] # server[CandidateServer(2)]
    /\ \A k \in 1..Len(res) : server[CandidateServer(k)] # "primary"
    /\ retval = NULL
    /\ master_id = <<NODE_NOT_FOUND>>
    /\ Len(conns) = Len(res)

\* C5: a rejected candidate does not end the call: the loop moves to the next
\* row, so whenever some candidate of the list is reachable and not
\* recovering the call returns a connection to such a candidate.
C5_FailureDoesNotAbort ==
    /\ pc = "for" => i = Len(conns) /\ \A k \in 1..Len(conns) : Rejected(k)
    /\ pc = "probe" => i + 1 = Len(conns)
    /\ ( /\ Returned
         /\ \E k \in 1..Len(res) : server[CandidateServer(k)] = "primary" ) =>
          /\ retval # NULL
          /\ server[conns[retval].server] = "primary"

C5_Witness ==
    /\ Returned
    /\ retval # NULL
    /\ retval > 1
    /\ conns[1].status = "CONNECTION_BAD"
    /\ server[conns[retval].server] = "primary"

\* C6: when the call has returned, every handle PQconnectdb gave it, other
\* than the one returned, has been passed to PQfinish.
C6_CandidateHandlesClosed ==
    pc = "done" =>
        \A k \in 1..Len(conns) : k # retval => conns[k].finished

\* what the caller has in hand after the call
CallerSees ==
    [retval |-> retval, master_id |-> master_id,
     master_conninfo_out |-> IF conninfo_arg THEN remote_conninfo ELSE <<>>]

\* what the caller has in hand after "no primary found" on an empty node list
NoPrimaryFoundOutcome ==
    [retval |-> NULL,
     master_id |-> IF master_id_arg THEN <<NODE_NOT_FOUND>> ELSE <<>>,
     master_conninfo_out |-> <<>>]

\* C7: a failed node list query gives the caller an outcome that differs
\* from the outcome of "no primary found".
C7_QueryFailureDistinct ==
    (pc = "done" /\ query_failed) => CallerSees # NoPrimaryFoundOutcome

\* a state in which "no primary found" has given the caller
\* NoPrimaryFoundOutcome
C7_NoPrimaryFoundSeen ==
    Returned /\ retval = NULL /\ CallerSees = NoPrimaryFoundOutcome

\* C8: on success *master_id is the node_id of the row whose connection is
\* returned, the connection was made with that row's conninfo and the
\* caller's conninfo buffer (when given) holds that row's conninfo.
C8_OutputsAgree ==
    (pc = "done" /\ retval # NULL) =>
        /\ retval \in 1..Len(res)
        /\ conns[retval].conninfo = res[retval].conninfo
        /\ res[retval].conninfo = nodes[res[retval].node_id].conninfo
        /\ master_id_arg => master_id = <<res[retval].node_id>>
        /\ conninfo_arg => remote_conninfo = <<res[retval].conninfo>>

C8_Witness ==
    /\ pc = "done"
    /\ retval >= 2
    /\ master_id_arg /\ conninfo_arg
    /\ conns[1].conninfo # conns[retval].conninfo
    /\ remote_conninfo = <<nodes[master_id[1]].conninfo>>

\* C9: no node stored as witness is connected to, probed or returned.
C9_WitnessExcluded ==
    /\ \A k \in 1..Len(res) : nodes[res[k].node_id].type # "witness"
    /\ \A k \in 1..Len(conns) : nodes[conns[k].server].type # "witness"
    /\ \A p \in 1..Len(probes) : nodes[conns[probes[p].conn].server].type # "witness"
    /\ retval # NULL => nodes[conns[retval].server].type # "witness"
    /\ master_id # <<>> /\ master_id # <<NODE_NOT_FOUND>> =>
          nodes[master_id[1]].type # "witness"

C9_Witness ==
    /\ Returned
    /\ \E n \in Nodes :
          /\ nodes[n].type = "witness" /\ nodes[n].active
          /\ server[n] = "primary"
          /\ \A k \in 1..Len(conns) : conns[k].server # n
    /\ Len(res) >= 1
    /\ Len(conns) = Len(res)
    /\ retval = NULL

(***************************************************************************)
(* Properties of the parameter list.                                       *)
(***************************************************************************)
\* the last two operations on param_list were param_set calls for one keyword
SetTwice == Len(hist) = 2 /\ hist[1].param = hist[2].param

\* no entry of the list is free
ListFull(list) == \A c \in 1..list.size : list.keywords[c] # NullStr

\* C10 as stated: after set(k, v1); set(k, v2), get(k) returns v2 and the
\* list holds exactly one entry for k.
C10_OverwriteAnyValue ==
    SetTwice =>
        /\ param_get(param_list, hist[2].param) = hist[2].value
        /\ EntriesFor(param_list, hist[2].param) = 1

\* C10 amended: after set(k, v1); set(k, v2) the list holds at most one entry
\* for k.  If it holds one, the value stored is v2, and get(k) returns v2 when
\* v2 is not empty and NULL when it is.  If it holds none, the list is full of
\* other keywords, both calls changed nothing and get(k) returns NULL.
C10_Overwrite ==
    SetTwice =>
        LET k  == hist[2].param
            v2 == hist[2].value
            s  == ScanFor(param_list, k, 0)
        IN  /\ EntriesFor(param_list, k) <= 1
            /\ EntriesFor(param_list, k) = 1 =>
                  /\ s.found
                  /\ param_list.values[s.c + 1] = v2
                  /\ param_get(param_list, k) = IF v2 = "" THEN NullStr ELSE v2
            /\ EntriesFor(param_list, k) = 0 =>
                  /\ ListFull(param_list)
                  /\ param_get(param_list, k) = NullStr

C10_Witness ==
    /\ SetTwice
    /\ hist[1].value # hist[2].value
    /\ hist[1].value # "" /\ hist[2].value # ""
    /\ param_get(param_list, hist[2].param) = hist[2].value
    /\ EntriesFor(param_list, hist[2].param) = 1
    /\ \E c \in 1..param_list.size :
          param_list.keywords[c] \notin {NullStr, hist[2].param}

\* the last operation on param_list was param_set(k, "")
SetToEmpty == hist # <<>> /\ hist[Len(hist)].value = ""

\* the value stored for keyword k (k has an entry)
StoredValue(list, k) == list.values[ScanFor(list, k, 0).c + 1]

\* C11 as stated: get returns NULL for a keyword without an entry and for a
\* keyword whose stored value is empty; after set(k, "") the list holds an
\* entry for k whose value is empty, and get(k) returns NULL.
C11_EmptyAlwaysStored ==
    /\ \A k \in Keywords :
          (EntriesFor(param_list, k) = 0 \/ StoredValue(param_list, k) = "")
              => param_get(param_list, k) = NullStr
    /\ SetToEmpty =>
          LET k == hist[Len(hist)].param
          IN  /\ EntriesFor(param_list, k) = 1
              /\ StoredValue(param_list, k) = ""
              /\ param_get(param_list, k) = NullStr

\* C11 amended: get returns NULL for a keyword without an entry and for a
\* keyword whose stored value is empty.  After set(k, "") get(k) returns
\* NULL, and the list holds an entry for k with the empty value unless it was
\* already full of other keywords, in which case it holds no entry for k.
C11_EmptyAndAbsent ==
    /\ \A k \in Keywords :
          (EntriesFor(param_list, k) = 0 \/ StoredValue(param_list, k) = "")
              => param_get(param_list, k) = NullStr
    /\ SetToEmpty =>
          LET k == hist[Len(hist)].param
          IN  /\ param_get(param_list, k) = NullStr
              /\ \/ EntriesFor(param_list, k) = 1 /\ StoredValue(param_list, k) = ""
                 \/ EntriesFor(param_list, k) = 0 /\ ListFull(param_list)

C11_Witness ==
    /\ SetTwice
    /\ hist[1].value # ""
    /\ hist[2].value = ""
    /\ EntriesFor(param_list, hist[2].param) = 1
    /\ StoredValue(param_list, hist[2].param) = ""
    /\ param_get(param_list, hist[2].param) = NullStr
    /\ \E k \in Keywords : EntriesFor(param_list, k) = 0

\* copy_conninfo_params was the last operation on param_list
CopyDone == last_op.op = "copy"

\* the entries of the list before the copy whose keyword has no non-empty
\* value in the source are where and what they were
UnmatchedKept ==
    \A c \in 1..last_op.before.size :
        (/\ last_op.before.keywords[c] # NullStr
         /\ param_get(last_op.source, last_op.before.keywords[c]) = NullStr)
        => /\ param_list.keywords[c] = last_op.before.keywords[c]
           /\ param_list.values[c] = last_op.before.values[c]

EntryCount(list) == Cardinality({c \in 1..list.size : list.keywords[c] # NullStr})

\* a set of a keyword the list had no entry for and no free slot for was
\* the last operation
SetOnFullList ==
    /\ last_op.op = "set"
    /\ ListFull(last_op.before)
    /\ EntriesFor(last_op.before, hist[Len(hist)].param) = 0

\* C19: in a list made by initialize and changed by set, copy and parse, no
\* keyword occurs in two entries, the entries occupy a contiguous prefix of
\* the arrays, there are at most capacity entries, no operation after
\* initialize removes or moves an entry, and a set of a new keyword on a full
\* list leaves the list as it was
C19_Structure ==
    /\ \A k \in Keywords : EntriesFor(param_list, k) <= 1
    /\ \A c \in 1..param_list.size :
          /\ param_list.keywords[c] \in Keywords \cup {NullStr}
          /\ param_list.keywords[c] = NullStr
             => /\ param_list.values[c] = NullStr
                /\ \A d \in c..param_list.size :
                      param_list.keywords[d] = NullStr
    /\ DOMAIN param_list.keywords = 1..param_list.size
    /\ DOMAIN param_list.values = 1..param_list.size
    /\ param_list.size = Len(PQconndefaults)
    /\ EntryCount(param_list) <= param_list.size
    /\ last_op.op \in {"set", "copy", "parse"}
       => /\ EntryCount(param_list) >= EntryCount(last_op.before)
          /\ \A c \in 1..last_op.before.size :
                last_op.before.keywords[c] # NullStr
                => param_list.keywords[c] = last_op.before.keywords[c]
    /\ SetOnFullList => param_list = last_op.before

\* a set of a new keyword on a full list, and the list is as it was
C19_Witness ==
    /\ SetOnFullList
    /\ param_list = last_op.before
    /\ EntryCount(param_list) = param_list.size

\* get_node_record was the last call
Looked == call.op = "get"

\* C13: get_node_record returns NODE_RECORD_QUERY_ERROR exactly when the
\* query fails, NODE_RECORD_NOT_FOUND exactly when the query succeeds and no
\* row has the node_id, and otherwise fills the caller's record from the row
\* with that node_id; in the first two cases the caller's record is as it
\* was; the registry is as it was in all three
C13_ThreeOutcomes ==
    Looked =>
        /\ call.result = <<NODE_RECORD_QUERY_ERROR>> <=> ~call.ok
        /\ call.result = <<NODE_RECORD_NOT_FOUND>>
           <=> (call.ok /\ call.nodes_before[call.node_id] = <<>>)
        /\ call.result \in {<<NODE_RECORD_QUERY_ERROR>>, <<NODE_RECORD_NOT_FOUND>>}
           => node_info = call.info_before
        /\ call.result \notin {<<NODE_RECORD_QUERY_ERROR>>, <<NODE_RECORD_NOT_FOUND>>}
           => /\ node_info.node_id = call.node_id
              /\ node_info =
                    populate_node_record(call.nodes_before[call.node_id][1])
        /\ nodes = call.nodes_before

\* a lookup of a node_id no row has, with a record the caller had filled
C13_Witness ==
    /\ Looked
    /\ call.result = <<NODE_RECORD_NOT_FOUND>>
    /\ call.info_before \in GivenRecords
    /\ node_info = call.info_before
    /\ \E n \in Nodes : nodes[n] # <<>>

\* the rows stored as an active master
ActiveMasters(reg) == {r \in StoredRows(reg) : r.type = "master" /\ r.active}

\* C14: get_master_node_id returns the node_id of a row stored as an active
\* master, returns NODE_NOT_FOUND exactly when no row is stored so, opens no
\* connection, probes no node and leaves the registry as it was
C14_NotFoundIffNoRecord ==
    call.op = "master_id" =>
        /\ call.result = <<NODE_NOT_FOUND>> <=> ActiveMasters(nodes) = {}
        /\ call.result # <<NODE_NOT_FOUND>>
           => \E r \in ActiveMasters(nodes) : call.result = <<r.node_id>>
        /\ conns = <<>>
        /\ probes = <<>>
        /\ nodes = call.nodes_before

\* create_node_record or update_node_record was the last call and wrote a row
Wrote == call.op \in {"create", "update"} /\ call.stored # <<>>

\* C15: the row create_node_record or update_node_record writes has, for a
\* standby given without upstream, the value get_master_node_id returned for
\* the registry of that moment as its upstream (the node_id of a row stored as
\* an active master, or NODE_NOT_FOUND); for any other type given without
\* upstream, a null upstream and no lookup; and the upstream given otherwise
C15_UpstreamResolution ==
    Wrote =>
        LET r      == call.info_before
            stored == call.stored[1]
        IN  /\ nodes[call.node_id] = call.stored
            /\ (r.upstream_node_id = NO_UPSTREAM_NODE /\ r.type = "STANDBY")
               => /\ call.primary_node_id # <<>>
                  /\ stored.upstream_node_id = call.primary_node_id
                  /\ \/ call.primary_node_id = <<NODE_NOT_FOUND>>
                     \/ \E m \in ActiveMasters(call.nodes_before) :
                           call.primary_node_id = <<m.node_id>>
                  /\ ActiveMasters(call.nodes_before) = {}
                     => call.primary_node_id = <<NODE_NOT_FOUND>>
            /\ (r.upstream_node_id = NO_UPSTREAM_NODE /\ r.type # "STANDBY")
               => /\ stored.upstream_node_id = <<>>
                  /\ call.primary_node_id = <<>>
            /\ r.upstream_node_id # NO_UPSTREAM_NODE
               => /\ stored.upstream_node_id = <<r.upstream_node_id>>
                  /\ call.primary_node_id = <<>>

\* an update of a standby given without upstream wrote the node_id of the
\* active master as its upstream
C15_Witness ==
    /\ Wrote
    /\ call.op = "update"
    /\ ResolvesUpstream(call.info_before)
    /\ \E m \in ActiveMasters(call.nodes_before) :
          /\ m.node_id # call.node_id
          /\ nodes[call.node_id][1].upstream_node_id = <<m.node_id>>

\* the fields of a t_node_info that repmgr.nodes stores
Persisted(info) ==
    [node_id |-> info.node_id, type |-> info.type,
     upstream_node_id |-> info.upstream_node_id,
     node_name |-> info.node_name, conninfo |-> info.conninfo,
     slot_name |-> info.slot_name, priority |-> info.priority,
     active |-> info.active]

\* get_node_record found the row of the record create_node_record was just
\* given and stored
ReadBack ==
    /\ Looked
    /\ call.after_create
    /\ call.result \notin {<<NODE_RECORD_QUERY_ERROR>>, <<NODE_RECORD_NOT_FOUND>>}

\* C16: the record get_node_record returns for the node_id of a record r
\* that create_node_record has just stored equals r on every persisted field,
\* and has is_ready and is_visible false and xlog_location invalid
C16_RoundTrip ==
    ReadBack =>
        /\ Persisted(node_info) = Persisted(call.info_before)
        /\ node_info.is_ready = FALSE
        /\ node_info.is_visible = FALSE
        /\ node_info.xlog_location = "InvalidXLogRecPtr"

\* C18: every result set a function obtained from PQexec has been given to
\* PQclear when the function returns, whether it succeeds or fails
C18_ResultsReleased == call.op # "none" => call.cleared

\* C17: every connection establish_db_connection handed back in the
\* connected state, each candidate connection of get_master_connection
\* among them, has synchronous_commit at "local"
C17_SynchronousCommitLocal ==
    \A k \in 1..Len(conns) :
        conns[k].status = "CONNECTION_OK"
        => conns[k].synchronous_commit = "local"

\* the rows that are no witness
Candidates(reg) == {n \in DOMAIN reg : reg[n].type # "witness"}

\* what get_master_connection has left to do: two steps for each row not
\* yet read, one step less once the row is connected to
Remaining ==
    CASE pc = "idle"  -> 2 * MaxNode + 2
      [] pc = "for"   -> 2 * (Len(res) - i) + 1
      [] pc = "probe" -> 2 * (Len(res) - i)
      [] OTHER        -> 0

\* C20: get_master_connection terminates: until it has returned it can take
\* a step, and each of its steps leaves it less to do; it reads the rows the
\* one query returned, as many as the registry had non-witness records then,
\* connects at most once and probes at most once for each, whatever the
\* upstream links are and whatever other sessions change during the call
C20_Terminates ==
    /\ [](/\ Remaining \in 0..(2 * MaxNode + 2)
          /\ pc # "done" => ENABLED FunctionStep
          /\ Len(conns) <= Len(res)
          /\ Len(probes) <= Len(conns)
          /\ Len(conns) <= i + 1
          /\ Len(res) <= MaxNode
          /\ \A k \in 1..Len(probes) : probes[k].conn >= k
          /\ \A k, l \in 1..Len(probes) : k # l => probes[k].conn # probes[l].conn)
    /\ [][/\ pc' # pc \/ i' # i \/ conns' # conns \/ probes' # probes
             => Remaining' < Remaining
          /\ pc = "idle" /\ pc' = "for"
             => Len(res') = Cardinality(Candidates(nodes))
          /\ pc # "idle" => res' = res]_vars

\* the call returned after a probe of every candidate of its query, on a
\* registry whose upstream links hold a cycle and which has since gained a
\* candidate
C20_Witness ==
    /\ pc = "done"
    /\ ~query_failed
    /\ Len(res) = MaxNode - 1
    /\ Len(probes) = Len(res)
    /\ Cardinality(Candidates(nodes)) = MaxNode
    /\ \E n \in Nodes : nodes[nodes[n].upstream_node_id].upstream_node_id = n

\* update_node_record was the last call
Updated == call.op = "update"

\* the server executed the statement built from the record the call was
\* given: it arrived and it is a statement
StatementExecuted == call.ok /\ StatementRow(call.info_before, 0).ok

\* C21: after update_node_record the node_ids that have a row are those that
\* had one, and every row of another node_id is as it was; when no row has
\* the given node_id the registry is wholly as it was and the call returns
\* true whenever the server executed the statement, as it does when a row
\* has the node_id
C21_UpdateKeepsNodeIds ==
    Updated =>
        /\ \A n \in Nodes : nodes[n] = <<>> <=> call.nodes_before[n] = <<>>
        /\ \A n \in Nodes \ {call.node_id} : nodes[n] = call.nodes_before[n]
        /\ call.nodes_before[call.node_id] = <<>> => nodes = call.nodes_before
        /\ call.result = <<StatementExecuted>>

\* an update of a node_id no row has returned true and the registry, which
\* holds a row of another node_id, is as it was
C21_Witness ==
    /\ Updated
    /\ call.nodes_before[call.node_id] = <<>>
    /\ call.result = <<TRUE>>
    /\ nodes = call.nodes_before
    /\ \E n \in Nodes : nodes[n] # <<>>

\* the upstream a create_node_record or update_node_record call looked up
\* and wrote
ResolvedAndWrote == Wrote /\ ResolvesUpstream(call.info_before)

\* C22: the row create_node_record or update_node_record writes for a
\* standby given without upstream has a null upstream or the node_id of a
\* row of the registry, never NODE_NOT_FOUND
C22_NoSentinelStored ==
    ResolvedAndWrote =>
        LET upstream == call.stored[1].upstream_node_id
        IN  /\ upstream # <<NODE_NOT_FOUND>>
            /\ \/ upstream = <<>>
               \/ \E n \in Nodes :
                     /\ call.nodes_before[n] # <<>>
                     /\ upstream = <<n>>

====
